---------------------------- MODULE Spec2Model ----------------------------
(***************************************************************************)
(* A model of MarketStructureAnalyzer (src/market_structure.py).           *)
(*                                                                         *)
(* The analyzer object holds a bar table (self.df), the table of valid     *)
(* bars (self.df_valid), the pivot table (self.df_pivots) and the list of  *)
(* BOS events (self.bos_events).  Each public method is one action.  A     *)
(* method is a loop over the bars; the loop is modelled iteration by       *)
(* iteration by a recursive operator, and the sequence of loop states the  *)
(* call went through is kept in a history variable (f_trace, p_trace,      *)
(* b_trace) so that statements about "bar i of the loop" can be made.      *)
(*                                                                         *)
(* Positions are Python positions (0-based): row i of a table t is         *)
(* t[i + 1].  Timestamps (the DataFrame index) are the idx field of a row. *)
(* An optional value (None, NaN) is the empty sequence, a present value v  *)
(* is <<v>>.                                                               *)
(***************************************************************************)
EXTENDS Integers, Sequences, FiniteSets, TLC

\* ------------------------------------------------------------ bounds
\* Longest bar series of the pipeline specification.
MaxBars == 6
\* Largest min_candles passed to identify_pivots.
MaxMinCandles == 3
\* Longest bar series and highest price of the filter specification.
MaxBarsFilter == 4
MaxPriceFilter == 2
\* Longest bar series of the alternation specification.
MaxBarsAlt == 8
\* Unchecked rows: number of bars, largest High, largest Low.
MaxBarsLoose == 4
MaxHighLoose == 1
MaxLowLoose == 3
\* Short series under long runs: number of bars, largest min_candles.
MaxBarsShort == 3
MaxMinCandlesShort == 5
\* Longest bar series of the any-order specification.
MaxBarsLazy == 5
\* Longest bar series with bars that close where they open.
MaxBarsDoji == 5
\* Longest bar series of the runner scripts' specification.
MaxBarsRunner == 4
MaxBarsPair == 4
MaxBarsStale == 6

\* identify_pivots(self, min_candles=2)
DefaultMinCandles == 2

\* ------------------------------------------------------------ helpers
None == <<>>
Some(v) == <<v>>
IsNone(o) == o = <<>>
Val(o) == o[1]

\* Op applied to the value of v, with v evaluated once (a LET body is
\* evaluated again at each use when TLC collects coverage).
With(v, Op(_)) == CHOOSE r \in {Op(x) : x \in {v}} : TRUE

Max2(a, b) == IF a >= b THEN a ELSE b
Min2(a, b) == IF a <= b THEN a ELSE b

\* t.iloc[k] for an in-range k: a negative k counts from the end.
Iloc(t, k) == t[IF k >= 0 THEN k + 1 ELSE Len(t) + k + 1]
\* t.iloc[k] raises IndexError outside -len..len-1.
IlocInBounds(t, k) == k < Len(t) /\ k >= 0 - Len(t)
\* t.iloc[a:b], Python slice rules: negative bounds count from the end and
\* every bound is clipped to 0..len.
SliceBound(t, a) == IF a < 0 THEN Max2(Len(t) + a, 0) ELSE Min2(a, Len(t))
IlocSlice(t, a, b) == SubSeq(t, SliceBound(t, a) + 1, SliceBound(t, b))

\* ------------------------------------------------------------ state
VARIABLES
    df,          \* self.df: the bar table, a sequence of rows
    is_inside,   \* self.df["is_inside"]: None until the column exists
    df_valid,    \* self.df_valid: None or the table of accepted bars
    df_pivots,   \* self.df_pivots: None or the pivot table
    bos_events,  \* self.bos_events
    raised,      \* the exception the last call ended with, "" for none
    min_candles, \* the argument of the last identify_pivots call, 0 before
    generation,  \* 0: built from caller's bars; 1: built from a df_valid
    f_trace,     \* loop states of the last filter_inside_bars run
    p_trace,     \* loop states of the last identify_pivots run
    b_trace,     \* loop states of the last find_bos run
    caller_df,   \* the table the caller passed to __init__, and who holds it
    other        \* None or a second analyzer built from the caller's table

vars == <<df, is_inside, df_valid, df_pivots, bos_events, raised,
          min_candles, generation, f_trace, p_trace, b_trace,
          caller_df, other>>

Bar(k, o, h, l, c) == [idx |-> k, Open |-> o, High |-> h, Low |-> l, Close |-> c]

\* ------------------------------------------------------------ __init__
\* Mutant: self.df = df, the analyzer holds the caller's table itself.
CopyShares(holders, who) == holders \cup {who}

\* self.df = df.copy(): the analyzer's table is an object of its own, so
\* the analyzers that hold the caller's table are those that held it.
Copy(holders, who) == holders

\* The analyzer __init__ leaves, over a table with rows t and is_inside
\* column flags.
NewAnalyzer(t, flags) ==
    [df |-> t, is_inside |-> flags, df_valid |-> None, df_pivots |-> None,
     bos_events |-> <<>>, raised |-> "", min_candles |-> 0,
     f_trace |-> <<>>, p_trace |-> <<>>, b_trace |-> <<>>]

\* The caller's table after analyzer who has written rows t and column
\* flags to its self.df: the same table unless who holds it.
Written(who, t, flags) ==
    IF who \in caller_df.held_by
    THEN [caller_df EXCEPT !.df = t, !.is_inside = flags]
    ELSE caller_df

\* The analyzer a after another analyzer has written rows t and column
\* flags to its self.df: the same unless both hold the caller's table.
Seen(a, t, flags) ==
    IF {"self", "other"} \subseteq caller_df.held_by
    THEN [a EXCEPT !.df = t, !.is_inside = flags]
    ELSE a

\* ------------------------------------------------------------ filter_inside_bars
\* Mutant: the test with strict comparisons.
IsInsideBarStrict(curr_high, curr_low, last_valid_high, last_valid_low) ==
    curr_high < last_valid_high /\ curr_low > last_valid_low

\* The inside-bar test of one loop iteration.
IsInsideBar(curr_high, curr_low, last_valid_high, last_valid_low) ==
    curr_high <= last_valid_high /\ curr_low >= last_valid_low

\* The state before the loop: the first bar is accepted.
FilterStart(t) ==
    [valid_indices |-> <<t[1].idx>>,
     last_valid_high |-> t[1].High,
     last_valid_low |-> t[1].Low,
     flags |-> [k \in 1..Len(t) |-> FALSE],
     accepted |-> TRUE]

\* Mutant: the reference high/low advance on every bar, so a bar is compared
\* with the bar right before it.
FilterStepRaw(t, s, i) ==
    LET curr == Iloc(t, i)
        inside == IsInsideBar(curr.High, curr.Low,
                              s.last_valid_high, s.last_valid_low)
        adv == [s EXCEPT !.last_valid_high = curr.High,
                         !.last_valid_low = curr.Low]
    IN IF ~inside
       THEN [adv EXCEPT !.valid_indices = Append(@, curr.idx),
                        !.accepted = TRUE]
       ELSE [adv EXCEPT !.flags = [k \in DOMAIN @ |->
                                      IF t[k].idx = curr.idx THEN TRUE ELSE @[k]],
                        !.accepted = FALSE]

\* One iteration of the loop, for position i >= 1.
FilterStep(t, s, i) ==
    LET curr == Iloc(t, i)
        inside == IsInsideBar(curr.High, curr.Low,
                              s.last_valid_high, s.last_valid_low)
    IN IF ~inside
       THEN [s EXCEPT !.valid_indices = Append(@, curr.idx),
                      !.last_valid_high = curr.High,
                      !.last_valid_low = curr.Low,
                      !.accepted = TRUE]
       ELSE [s EXCEPT !.flags = [k \in DOMAIN @ |->
                                    IF t[k].idx = curr.idx THEN TRUE ELSE @[k]],
                      !.accepted = FALSE]

\* f[i + 1] is the loop state after position i (f[1]: before the loop).
RECURSIVE FilterRun(_, _)
FilterRun(t, i) ==
    IF i = 0 THEN <<FilterStart(t)>>
    ELSE With(FilterRun(t, i - 1),
              LAMBDA f : Append(f, FilterStep(t, f[Len(f)], i)))

\* self.df.loc[valid_indices]
Loc(t, labels) ==
    [n \in 1..Len(labels) |->
        t[CHOOSE k \in 1..Len(t) : t[k].idx = labels[n]]]

\* What filter_inside_bars assigns, for a non-empty table t.
FilterResult(t) ==
    With(FilterRun(t, Len(t) - 1),
         LAMBDA f : [is_inside |-> Some(f[Len(f)].flags),
                     df_valid |-> Some(Loc(t, f[Len(f)].valid_indices)),
                     f_trace |-> f])

\* filter_inside_bars as a function of the analyzer: the fields it leaves.
FilterOn(a) ==
    IF a.df = <<>>
    THEN [a EXCEPT !.raised = ""]
    ELSE With(FilterResult(a.df),
              LAMBDA f : [a EXCEPT !.raised = "",
                                   !.is_inside = f.is_inside,
                                   !.df_valid = f.df_valid,
                                   !.f_trace = f.f_trace])

FilterInsideBars ==
    /\ raised' = ""
    /\ IF df = <<>>
       THEN UNCHANGED <<is_inside, df_valid, f_trace>>
       ELSE \E r \in {FilterResult(df)} :
               /\ is_inside' = r.is_inside
               /\ df_valid' = r.df_valid
               /\ f_trace' = r.f_trace
    /\ caller_df' = Written("self", df, is_inside')
    /\ other' = IF IsNone(other) THEN other
                ELSE Some(Seen(Val(other), df, is_inside'))
    /\ UNCHANGED <<df, df_pivots, bos_events, min_candles, generation,
                   p_trace, b_trace>>

\* ------------------------------------------------------------ identify_pivots
\* df = self.df_valid.copy() with the colour columns and the empty pivot
\* columns added.
PivotTable(t) ==
    [k \in 1..Len(t) |->
        [idx |-> t[k].idx, Open |-> t[k].Open, High |-> t[k].High,
         Low |-> t[k].Low, Close |-> t[k].Close,
         is_green |-> t[k].Close > t[k].Open,
         is_red |-> t[k].Close < t[k].Open,
         pivot_high |-> None, pivot_low |-> None, label |-> ""]]

\* all(df[col].iloc[i - j] for j in range(m)), evaluated from j on: the
\* generator stops at the first False, and iloc raises IndexError when i - j
\* is below -len.  reads is the set of positions handed to iloc.
RECURSIVE AllRun(_, _, _, _, _)
AllRun(t, col, i, m, j) ==
    IF j >= m THEN [ok |-> TRUE, err |-> FALSE, reads |-> {}]
    ELSE IF ~IlocInBounds(t, i - j)
         THEN [ok |-> FALSE, err |-> TRUE, reads |-> {i - j}]
    ELSE IF ~Iloc(t, i - j)[col]
         THEN [ok |-> FALSE, err |-> FALSE, reads |-> {i - j}]
    ELSE [AllRun(t, col, i, m, j + 1) EXCEPT !.reads = @ \cup {i - j}]

NoRun == [ok |-> FALSE, err |-> FALSE, reads |-> {}]

\* The least value of the range where the greatest is asked for.
ColLeast(r, col) ==
    CHOOSE v \in {r[k][col] : k \in 1..Len(r)} :
        \A k \in 1..Len(r) : v <= r[k][col]

\* search_range[col].min() and .max() of a non-empty range.
ColMin(r, col) ==
    CHOOSE v \in {r[k][col] : k \in 1..Len(r)} :
        \A k \in 1..Len(r) : v <= r[k][col]
ColMax(r, col) ==
    CHOOSE v \in {r[k][col] : k \in 1..Len(r)} :
        \A k \in 1..Len(r) : v >= r[k][col]
\* search_range[col].idxmin() and .idxmax(): the label of the first row
\* holding the extreme.
IdxMin(r, col) ==
    r[CHOOSE k \in 1..Len(r) :
        /\ r[k][col] = ColMin(r, col)
        /\ \A j \in 1..(k - 1) : r[j][col] # ColMin(r, col)].idx
IdxMax(r, col) ==
    r[CHOOSE k \in 1..Len(r) :
        /\ r[k][col] = ColMax(r, col)
        /\ \A j \in 1..(k - 1) : r[j][col] # ColMax(r, col)].idx

\* df.at[label, col] = v
At(t, label, col, v) ==
    [k \in 1..Len(t) |->
        IF t[k].idx = label THEN [t[k] EXCEPT ![col] = v] ELSE t[k]]

\* Mutant: the new trend starts on the bar before its run, the first bar at
\* the earliest.
RunStartEarlier(i, m) == Max2(0, i - m)

\* current_trend_start_idx after a reversal at position i.
RunStart(i, m) == i - (m - 1)

\* The loop state before the first iteration.
PivotStart(t) ==
    [tbl |-> PivotTable(t), trend |-> "none", start |-> 0, err |-> "",
     i |-> 0, reads |-> {}, fired |-> "none", pivot |-> None]

\* Mutant: the close-out records the extreme but leaves the trend as it was.
ReverseKeepsTrend(s, i, m, to, from, col, pcol, reads) ==
    LET search_range == IlocSlice(s.tbl, s.start, i + 1)
        base == [s EXCEPT !.i = i, !.reads = reads, !.fired = to,
                          !.pivot = None]
        at == IF col = "Low" THEN IdxMin(search_range, col)
              ELSE IdxMax(search_range, col)
        v == IF col = "Low" THEN ColMin(search_range, col)
             ELSE ColMax(search_range, col)
    IN IF s.trend = from /\ search_range = <<>>
       THEN [base EXCEPT !.err = "ValueError"]
       ELSE IF s.trend = from
       THEN [base EXCEPT !.tbl = At(s.tbl, at, pcol, Some(v)),
                         !.pivot = Some([kind |-> col, idx |-> at,
                                         value |-> v]),
                         !.start = RunStart(i, m)]
       ELSE [base EXCEPT !.trend = to, !.start = RunStart(i, m)]

\* The reversal branch: close out the opposite trend, if there is one, by
\* recording the extreme of df.iloc[start:i + 1], then start the new trend.
Reverse(s, i, m, to, from, col, pcol, reads) ==
    LET search_range == IlocSlice(s.tbl, s.start, i + 1)
        base == [s EXCEPT !.i = i, !.reads = reads, !.fired = to,
                          !.pivot = None]
        at == IF col = "Low" THEN IdxMin(search_range, col)
              ELSE IdxMax(search_range, col)
        v == IF col = "Low" THEN ColMin(search_range, col)
             ELSE ColMax(search_range, col)
    IN IF s.trend = from /\ search_range = <<>>
       THEN [base EXCEPT !.err = "ValueError"]
       ELSE IF s.trend = from
       THEN [base EXCEPT !.tbl = At(s.tbl, at, pcol, Some(v)),
                         !.pivot = Some([kind |-> col, idx |-> at,
                                         value |-> v]),
                         !.trend = to,
                         !.start = RunStart(i, m)]
       ELSE [base EXCEPT !.trend = to, !.start = RunStart(i, m)]

\* One iteration of the loop, at position i.
PivotBranch(s, i, m, bull, bear) ==
    LET reads == bull.reads \cup bear.reads
    IN IF bull.err \/ bear.err
       THEN [s EXCEPT !.i = i, !.reads = reads, !.fired = "none",
                      !.pivot = None, !.err = "IndexError"]
       ELSE IF bull.ok
       THEN Reverse(s, i, m, "bull", "bear", "Low", "pivot_low", reads)
       ELSE IF bear.ok
       THEN Reverse(s, i, m, "bear", "bull", "High", "pivot_high", reads)
       ELSE [s EXCEPT !.i = i, !.reads = reads, !.fired = "none",
                      !.pivot = None]

PivotStep(s, i, m) ==
    With(IF s.trend # "bull"
         THEN AllRun(s.tbl, "is_green", i, m, 0) ELSE NoRun,
         LAMBDA bull :
            With(IF ~bull.ok /\ ~bull.err /\ s.trend # "bear"
                 THEN AllRun(s.tbl, "is_red", i, m, 0) ELSE NoRun,
                 LAMBDA bear : PivotBranch(s, i, m, bull, bear)))

\* First position the loop visits: for i in range(1, len(df)).
FirstBar == 1

\* The loop states of identify_pivots on the valid table t: p[1] is the
\* state before the loop, each later entry the state after one iteration.
\* An exception ends the loop.
RECURSIVE PivotRun(_, _, _)
PivotRun(t, m, i) ==
    IF i < FirstBar THEN <<PivotStart(t)>>
    ELSE With(PivotRun(t, m, i - 1),
              LAMBDA p : IF p[Len(p)].err # "" THEN p
                         ELSE Append(p, PivotStep(p[Len(p)], i, m)))

\* The positions of the rows of t whose column col is not NaN, in order.
NotNa(t, col) ==
    SelectSeq([k \in 1..Len(t) |-> k], LAMBDA k : t[k][col] # None)

\* The labels of the pivots at positions ps: first, then higher or lower
\* than the one before.
Labels(t, ps, col, first, higher, lower) ==
    [n \in 1..Len(ps) |->
        IF n = 1 THEN first
        ELSE IF Val(t[ps[n]][col]) > Val(t[ps[n - 1]][col]) THEN higher
        ELSE lower]

\* Write labels[n] into the label column of row ps[n].
SetLabels(t, ps, labels) ==
    [k \in 1..Len(t) |->
        IF \E n \in 1..Len(ps) : ps[n] = k
        THEN [t[k] EXCEPT !.label = labels[CHOOSE n \in 1..Len(ps) : ps[n] = k]]
        ELSE t[k]]

\* _add_labels: the highs first, then the lows, into the one label column.
AddLabels(t) ==
    LET highs == NotNa(t, "pivot_high")
        t1 == SetLabels(t, highs,
                        Labels(t, highs, "pivot_high", "H", "HH", "LH"))
        lows == NotNa(t1, "pivot_low")
    IN SetLabels(t1, lows, Labels(t1, lows, "pivot_low", "L", "HL", "LL"))

\* The trace kept of a loop state: everything but the table.
PivotEntry(s) ==
    [trend |-> s.trend, start |-> s.start, err |-> s.err, i |-> s.i,
     reads |-> s.reads, fired |-> s.fired, pivot |-> s.pivot]

\* What identify_pivots(m) does given self.df_valid = valid (not None).
PivotResult(valid, m) ==
    With(PivotRun(valid, m, Len(valid) - 1),
         LAMBDA p :
            [err |-> p[Len(p)].err,
             df_pivots |-> IF p[Len(p)].err = ""
                           THEN Some(AddLabels(p[Len(p)].tbl)) ELSE None,
             p_trace |-> [n \in 1..Len(p) |-> PivotEntry(p[n])]])

\* identify_pivots as a function of the analyzer: the fields it leaves.
\* The analyzer after the lazy call of filter_inside_bars.
Prefiltered(a) ==
    IF IsNone(a.df_valid) /\ a.df # <<>>
    THEN With(FilterResult(a.df),
              LAMBDA f : [a EXCEPT !.is_inside = f.is_inside,
                                   !.df_valid = f.df_valid,
                                   !.f_trace = f.f_trace])
    ELSE a

IdentifyOn(a, m) ==
    With([Prefiltered(a) EXCEPT !.min_candles = m],
         LAMBDA a1 :
            IF IsNone(a1.df_valid)
            THEN [a1 EXCEPT !.raised = "AttributeError"]
            ELSE With(PivotResult(Val(a1.df_valid), m),
                      LAMBDA r :
                         IF r.err # ""
                         THEN [a1 EXCEPT !.raised = r.err,
                                         !.p_trace = r.p_trace]
                         ELSE [a1 EXCEPT !.raised = "",
                                         !.p_trace = r.p_trace,
                                         !.df_pivots = r.df_pivots]))

Self ==
    [df |-> df, is_inside |-> is_inside, df_valid |-> df_valid,
     df_pivots |-> df_pivots, bos_events |-> bos_events, raised |-> raised,
     min_candles |-> min_candles, f_trace |-> f_trace, p_trace |-> p_trace,
     b_trace |-> b_trace]

Becomes(a) ==
    \E r \in {a} :
        /\ df' = r.df
        /\ is_inside' = r.is_inside
        /\ df_valid' = r.df_valid
        /\ df_pivots' = r.df_pivots
        /\ bos_events' = r.bos_events
        /\ raised' = r.raised
        /\ min_candles' = r.min_candles
        /\ f_trace' = r.f_trace
        /\ p_trace' = r.p_trace
        /\ b_trace' = r.b_trace
        /\ caller_df' = Written("self", r.df, r.is_inside)
        /\ other' = IF IsNone(other) THEN other
                    ELSE Some(Seen(Val(other), r.df, r.is_inside))
        /\ UNCHANGED generation

IdentifyPivots(m) == Becomes(IdentifyOn(Self, m))

\* ------------------------------------------------------------ find_bos
\* Python truth of last_ph_val / last_pl_val: None and 0 are false.
Truthy(o) == ~IsNone(o) /\ Val(o) # 0

\* The loop state before the first bar.
BosStart ==
    [last_ph_idx |-> None, last_ph_val |-> None,
     last_pl_idx |-> None, last_pl_val |-> None,
     events |-> <<>>,
     i |-> 0 - 1, act_ph_idx |-> None, act_ph_val |-> None,
     act_pl_idx |-> None, act_pl_val |-> None, emitted |-> None]

\* A quality that also counts a next close that only touches the level.
QualityTouching(t, i, level, up) ==
    IF i + 1 < Len(t)
    THEN LET next_close == Iloc(t, i + 1).Close
         IN IF (up /\ next_close >= level) \/ (~up /\ next_close <= level)
            THEN "good" ELSE "bad"
    ELSE "bad"

\* The quality of a break of level at position i: good when there is a next
\* bar and its close is past the level too.
Quality(t, i, level, up) ==
    IF i + 1 < Len(t)
    THEN LET next_close == Iloc(t, i + 1).Close
         IN IF (up /\ next_close > level) \/ (~up /\ next_close < level)
            THEN "good" ELSE "bad"
    ELSE "bad"

BosEvent(start, end, level, colour, quality) ==
    [start_date |-> start, end_date |-> end, level |-> level,
     type |-> "BOS", color |-> colour, quality |-> quality]

\* A reset that keeps the broken level.
RetireKeeps(v) == v

\* The reset of the broken level after an event.
Retire(v) == None

\* An update that leaves a level that is still there in place.
ActivateIfUnset(pivot, new, last) ==
    IF ~IsNone(pivot) /\ IsNone(last) THEN new ELSE last

\* The update of last_ph_idx, last_ph_val (last_pl_idx, last_pl_val) at a
\* bar: the bar's own pivot if it carries one, else what was there.
Activate(pivot, new, last) ==
    IF ~IsNone(pivot) THEN new ELSE last

\* One iteration of the loop, at position i.  act_* keep the active levels
\* as they are after the update for this bar and before the break checks.
BosStep(t, s, i) ==
    LET curr == Iloc(t, i)
        ph_idx == Activate(curr.pivot_high, Some(curr.idx), s.last_ph_idx)
        ph_val == Activate(curr.pivot_high, curr.pivot_high, s.last_ph_val)
        pl_idx == Activate(curr.pivot_low, Some(curr.idx), s.last_pl_idx)
        pl_val == Activate(curr.pivot_low, curr.pivot_low, s.last_pl_val)
        u == [s EXCEPT !.i = i,
                       !.last_ph_idx = ph_idx, !.last_ph_val = ph_val,
                       !.last_pl_idx = pl_idx, !.last_pl_val = pl_val,
                       !.act_ph_idx = ph_idx, !.act_ph_val = ph_val,
                       !.act_pl_idx = pl_idx, !.act_pl_val = pl_val,
                       !.emitted = None]
    IN IF Truthy(ph_val) /\ curr.Close > Val(ph_val)
       THEN LET e == BosEvent(Val(ph_idx), curr.idx, Val(ph_val), "green",
                              Quality(t, i, Val(ph_val), TRUE))
            IN [u EXCEPT !.events = Append(@, e), !.emitted = Some(e),
                         !.last_ph_val = Retire(@)]
       ELSE IF Truthy(pl_val) /\ curr.Close < Val(pl_val)
       THEN LET e == BosEvent(Val(pl_idx), curr.idx, Val(pl_val), "red",
                              Quality(t, i, Val(pl_val), FALSE))
            IN [u EXCEPT !.events = Append(@, e), !.emitted = Some(e),
                         !.last_pl_val = Retire(@)]
       ELSE u

\* b[i + 2] is the loop state after position i (b[1]: before the loop).
RECURSIVE BosRun(_, _)
BosRun(t, i) ==
    IF i < 0 THEN <<BosStart>>
    ELSE With(BosRun(t, i - 1),
              LAMBDA b : Append(b, BosStep(t, b[Len(b)], i)))

\* A find_bos that runs identify_pivots() whether or not a pivot table is
\* there.
FindBosRecomputing(a) ==
    With(IdentifyOn(a, DefaultMinCandles),
         LAMBDA a1 :
            IF a1.raised # ""
            THEN a1
            ELSE With(BosRun(Val(a1.df_pivots), Len(Val(a1.df_pivots)) - 1),
                      LAMBDA b : [a1 EXCEPT !.bos_events = b[Len(b)].events,
                                            !.b_trace = b]))

\* Mutant: a find_bos that keeps the events of the calls before it.
FindBosAppending(a) ==
    With(IF IsNone(a.df_pivots) THEN IdentifyOn(a, DefaultMinCandles)
         ELSE [a EXCEPT !.raised = ""],
         LAMBDA a1 :
            IF a1.raised # ""
            THEN a1
            ELSE With(BosRun(Val(a1.df_pivots), Len(Val(a1.df_pivots)) - 1),
                      LAMBDA b : [a1 EXCEPT !.bos_events =
                                               a.bos_events \o b[Len(b)].events,
                                            !.b_trace = b]))

\* find_bos as a function of the analyzer: the fields it leaves.
FindBosOn(a) ==
    With(IF IsNone(a.df_pivots) THEN IdentifyOn(a, DefaultMinCandles)
         ELSE [a EXCEPT !.raised = ""],
         LAMBDA a1 :
            IF a1.raised # ""
            THEN a1
            ELSE With(BosRun(Val(a1.df_pivots), Len(Val(a1.df_pivots)) - 1),
                      LAMBDA b : [a1 EXCEPT !.bos_events = b[Len(b)].events,
                                            !.b_trace = b]))

FindBos == Becomes(FindBosOn(Self))

\* ------------------------------------------------------------ a second analyzer
\* MarketStructureAnalyzer(df) once more, on the table the caller still has.
ConstructOther ==
    /\ IsNone(other)
    /\ other' = Some(NewAnalyzer(caller_df.df, caller_df.is_inside))
    /\ caller_df' = [caller_df EXCEPT !.held_by = Copy(@, "other")]
    /\ UNCHANGED <<df, is_inside, df_valid, df_pivots, bos_events, raised,
                   min_candles, generation, f_trace, p_trace, b_trace>>

\* A call on the second analyzer leaves it as r.
OtherBecomes(r) ==
    /\ other' = Some(r)
    /\ caller_df' = Written("other", r.df, r.is_inside)
    /\ \E a \in {Seen(Self, r.df, r.is_inside)} :
          /\ df' = a.df
          /\ is_inside' = a.is_inside
    /\ UNCHANGED <<df_valid, df_pivots, bos_events, raised, min_candles,
                   generation, f_trace, p_trace, b_trace>>

OtherFilterInsideBars == ~IsNone(other) /\ OtherBecomes(FilterOn(Val(other)))
OtherIdentifyPivots(m) ==
    ~IsNone(other) /\ OtherBecomes(IdentifyOn(Val(other), m))
OtherFindBos == ~IsNone(other) /\ OtherBecomes(FindBosOn(Val(other)))

\* ------------------------------------------------------------ the scripts
\* The methods the class defines, and the keywords plot takes.
Methods ==
    {"__init__", "filter_inside_bars", "identify_pivots", "_add_labels",
     "find_bos", "plot"}
PlotParams == {"title", "zoom_days", "output_path"}

\* The keywords of the calls of plot in test_runner.py, in
\* ci_plot_generator.py and in generate_plots.py.
PlotCalls ==
    {{"title", "zoom_days"}, {"title", "zoom_days", "output_path"},
     {"title", "zoom_days", "filepath"}}

\* A call that raises exc before it touches the analyzer.
Raises(exc) ==
    /\ raised' = exc
    /\ UNCHANGED <<df, is_inside, df_valid, df_pivots, bos_events,
                   min_candles, generation, f_trace, p_trace, b_trace,
                   caller_df, other>>

\* analyzer.with_candlestick_patterns(): the attribute lookup on the
\* analyzer comes first.
WithCandlestickPatterns ==
    IF "with_candlestick_patterns" \in Methods
    THEN UNCHANGED vars
    ELSE Raises("AttributeError")

\* analyzer.plot(**kw): draws from the tables and assigns no field.
Plot(kw) ==
    IF kw \subseteq PlotParams
    THEN UNCHANGED vars
    ELSE Raises("TypeError")

\* MarketStructureAnalyzer(a.df_valid): a fresh analyzer over the valid
\* series of this one.
Construct(t) ==
    /\ df' = t
    /\ is_inside' = None
    /\ df_valid' = None
    /\ df_pivots' = None
    /\ bos_events' = <<>>
    /\ raised' = ""
    /\ min_candles' = 0
    /\ f_trace' = <<>>
    /\ p_trace' = <<>>
    /\ b_trace' = <<>>
    /\ caller_df' = [caller_df EXCEPT !.held_by = @ \ {"self"}]
    /\ UNCHANGED other

Reanalyze ==
    /\ generation = 0
    /\ ~IsNone(df_valid)
    /\ Construct(Val(df_valid))
    /\ generation' = 1

\* ------------------------------------------------------------ inputs
\* The filter reads High and Low only: its inputs are all series of bars
\* with Low <= High in 0..MaxPriceFilter, Open and Close held at the Low.
FilterBars ==
    {lh \in (0..MaxPriceFilter) \X (0..MaxPriceFilter) : lh[1] <= lh[2]}

Fresh ==
    /\ is_inside = None
    /\ df_valid = None
    /\ df_pivots = None
    /\ bos_events = <<>>
    /\ raised = ""
    /\ min_candles = 0
    /\ generation = 0
    /\ f_trace = <<>>
    /\ p_trace = <<>>
    /\ b_trace = <<>>
    /\ caller_df = [df |-> df, is_inside |-> None,
                    held_by |-> Copy({}, "self")]
    /\ other = None

InitFilter ==
    /\ \E n \in 0..MaxBarsFilter :
          \E s \in [1..n -> FilterBars] :
             df = [k \in 1..n |-> Bar(k, s[k][1], s[k][2], s[k][1], s[k][1])]
    /\ Fresh

NextFilter == FilterInsideBars \/ Reanalyze

SpecFilter == InitFilter /\ [][NextFilter]_vars

\* The pipeline's inputs: series in which every bar spans one price unit
\* and sits one unit above or below the bar before it, so that no bar is an
\* inside bar and pivot ties occur; a green bar opens at its low and closes
\* at its high, a red bar the other way round.  The first bar spans 0..1.
Colours == {"green", "red"}
Moves == {0 - 1, 1}

RECURSIVE Level(_, _)
Level(ms, k) == IF k <= 1 THEN 0 ELSE Level(ms, k - 1) + ms[k]

WalkBar(k, level, colour) ==
    IF colour = "green" THEN Bar(k, level, level + 1, level, level + 1)
    ELSE IF colour = "red" THEN Bar(k, level + 1, level + 1, level, level)
    ELSE Bar(k, level, level + 1, level, level)

\* self.df is some walk of at most maxlen bars.
IsWalk(maxlen) ==
    \E n \in 0..maxlen :
        \E cs \in [1..n -> Colours] :
            \E ms \in [2..n -> Moves] :
                df = [k \in 1..n |-> WalkBar(k, Level(ms, k), cs[k])]

Init ==
    /\ IsWalk(MaxBars)
    /\ Fresh

\* The caller runs the documented pipeline:
\* Analyzer(df).filter_inside_bars().identify_pivots(m).find_bos()
Next ==
    \/ IsNone(df_valid) /\ IsNone(df_pivots) /\ b_trace = <<>>
          /\ FilterInsideBars
    \/ \E m \in 1..MaxMinCandles :
          /\ ~IsNone(df_valid) \/ df = <<>>
          /\ IsNone(df_pivots) /\ b_trace = <<>>
          /\ IdentifyPivots(m)
    \/ ~IsNone(df_pivots) /\ FindBos

Spec == Init /\ [][Next]_vars

\* Longer series, for what needs three pivots at the default min_candles:
\* the caller calls identify_pivots() on the fresh analyzer.
InitAlt ==
    /\ IsWalk(MaxBarsAlt)
    /\ Fresh

NextAlt == IsNone(df_pivots) /\ IdentifyPivots(DefaultMinCandles)

SpecAlt == InitAlt /\ [][NextAlt]_vars

\* Rows as __init__ takes them, with nothing checked: High and Low are drawn
\* independently of each other and of the body, so Low may lie above High
\* and Close outside both.  The body spans 0..1: a green bar opens at 0 and
\* closes at 1, a red bar the other way round.
LooseBar(k, h, l, c) == Bar(k, 1 - c, h, l, c)

InitLoose ==
    /\ \E n \in 0..MaxBarsLoose :
          \E hs \in [1..n -> 0..MaxHighLoose] :
             \E ls \in [1..n -> 0..MaxLowLoose] :
                \E cs \in [1..n -> 0..1] :
                   df = [k \in 1..n |-> LooseBar(k, hs[k], ls[k], cs[k])]
    /\ Fresh

SpecLoose == InitLoose /\ [][Next]_vars

\* Series shorter than the run asked for: the pipeline on walks of at most
\* MaxBarsShort bars with min_candles up to MaxMinCandlesShort.
InitShort ==
    /\ IsWalk(MaxBarsShort)
    /\ Fresh

NextShort ==
    \/ IsNone(df_valid) /\ IsNone(df_pivots) /\ b_trace = <<>>
          /\ FilterInsideBars
    \/ \E m \in 1..MaxMinCandlesShort :
          /\ ~IsNone(df_valid) \/ df = <<>>
          /\ IsNone(df_pivots) /\ b_trace = <<>>
          /\ IdentifyPivots(m)
    \/ ~IsNone(df_pivots) /\ FindBos

SpecShort == InitShort /\ [][NextShort]_vars

\* Walks in which a bar may also close where it opens, at its low.
InitDoji ==
    /\ \E n \in 0..MaxBarsDoji :
          \E cs \in [1..n -> Colours \cup {"doji"}] :
             \E ms \in [2..n -> Moves] :
                df = [k \in 1..n |-> WalkBar(k, Level(ms, k), cs[k])]
    /\ Fresh

SpecDoji == InitDoji /\ [][Next]_vars

\* The chains of the scripts on a non-empty series: the three stages with
\* min_candles = 2, then with_candlestick_patterns() (test_runner.py,
\* generate_plots.py) or plot(...); an exception ends the script.
InitRunner ==
    /\ IsWalk(MaxBarsRunner)
    /\ df # <<>>
    /\ Fresh

NextRunner ==
    \/ IsNone(df_valid) /\ FilterInsideBars
    \/ ~IsNone(df_valid) /\ IsNone(df_pivots)
          /\ IdentifyPivots(DefaultMinCandles)
    \/ ~IsNone(df_pivots) /\ b_trace = <<>> /\ FindBos
    \/ b_trace # <<>> /\ raised = "" /\ WithCandlestickPatterns
    \/ b_trace # <<>> /\ raised = "" /\ \E kw \in PlotCalls : Plot(kw)

SpecRunner == InitRunner /\ [][NextRunner]_vars

\* The stages called in any order and any number of times on one analyzer.
InitLazy ==
    /\ IsWalk(MaxBarsLazy)
    /\ Fresh

NextLazy ==
    \/ FilterInsideBars
    \/ \E m \in 1..MaxMinCandles : IdentifyPivots(m)
    \/ FindBos

SpecLazy == InitLazy /\ [][NextLazy]_vars

\* Two analyzers built from one table, the stages called on either in any
\* order and any number of times.
InitPair ==
    /\ IsWalk(MaxBarsPair)
    /\ Fresh

NextPair ==
    \/ FilterInsideBars
    \/ \E m \in 1..MaxMinCandles : IdentifyPivots(m)
    \/ FindBos
    \/ ConstructOther
    \/ OtherFilterInsideBars
    \/ \E m \in 1..MaxMinCandles : OtherIdentifyPivots(m)
    \/ OtherFindBos

SpecPair == InitPair /\ [][NextPair]_vars

\* The pipeline at the default min_candles, then earlier stages called
\* again: identify_pivots with any min_candles, filter_inside_bars, and
\* find_bos as often as the caller likes.
InitStale ==
    /\ IsWalk(MaxBarsStale)
    /\ Fresh

NextStale ==
    \/ IsNone(df_valid) /\ FilterInsideBars
    \/ ~IsNone(df_valid) /\ IsNone(df_pivots)
          /\ IdentifyPivots(DefaultMinCandles)
    \/ ~IsNone(df_pivots) /\ FindBos
    \/ b_trace # <<>> /\ \E m \in 1..MaxMinCandles : IdentifyPivots(m)
    \/ b_trace # <<>> /\ FilterInsideBars

SpecStale == InitStale /\ [][NextStale]_vars

\* ------------------------------------------------------------ filter claims
\* The filter has run on a non-empty table.
Filtered == df # <<>> /\ ~IsNone(df_valid) /\ ~IsNone(is_inside)

Flag(k) == Val(is_inside)[k]
\* The last position before k whose bar was not flagged.
LastAccepted(k) ==
    CHOOSE a \in 1..(k - 1) :
        ~Flag(a) /\ \A b \in (a + 1)..(k - 1) : Flag(b)
PosOf(t, label) == CHOOSE k \in 1..Len(t) : t[k].idx = label

\* C1: after filter_inside_bars on a non-empty series the first bar is
\* accepted; a later bar is flagged inside iff its high <= the high and its
\* low >= the low of the last accepted bar before it; the loop's reference
\* high/low are those of the bar just accepted and do not move on a flagged
\* bar; and df_valid is the unflagged bars in their original order.
C1_FilterAgainstLastAccepted ==
    Filtered =>
        /\ ~Flag(1)
        /\ \A k \in 2..Len(df) :
              Flag(k) <=> /\ df[k].High <= df[LastAccepted(k)].High
                          /\ df[k].Low >= df[LastAccepted(k)].Low
        /\ Len(f_trace) = Len(df)
        /\ \A k \in 2..Len(df) :
              IF Flag(k)
              THEN /\ f_trace[k].last_valid_high = f_trace[k - 1].last_valid_high
                   /\ f_trace[k].last_valid_low = f_trace[k - 1].last_valid_low
              ELSE /\ f_trace[k].last_valid_high = df[k].High
                   /\ f_trace[k].last_valid_low = df[k].Low
        /\ Val(df_valid) = SelectSeq(df, LAMBDA r : ~Flag(PosOf(df, r.idx)))

\* A flagged bar right after a flagged bar that does not contain it: the
\* last accepted bar and the preceding raw bar give different answers.
C1_Witness ==
    /\ Filtered
    /\ \E k \in 3..Len(df) :
          /\ Flag(k) /\ Flag(k - 1)
          /\ ~(df[k].High <= df[k - 1].High /\ df[k].Low >= df[k - 1].Low)

\* C2: filter_inside_bars run on an analyzer built from the valid series of
\* a first run flags no bar and returns that series unchanged.
C2_FilterIdempotent ==
    (generation = 1 /\ Filtered) =>
        /\ \A k \in 1..Len(df) : ~Flag(k)
        /\ Val(df_valid) = df

\* The second run has happened on a series the first run removed bars from.
C2_Witness ==
    /\ generation = 1 /\ Filtered
    /\ Len(df) >= 3
    /\ \E k \in 1..(Len(df) - 1) : df[k + 1].idx > df[k].idx + 1

\* ------------------------------------------------------------ pivot claims
\* identify_pivots has run (to its end or to an exception) on df_valid.
PivotsRan == p_trace # <<>> /\ ~IsNone(df_valid)
\* identify_pivots has returned and left its table.
PivotsDone == PivotsRan /\ raised = "" /\ ~IsNone(df_pivots)

V == Val(df_valid)
PT == Val(df_pivots)
\* Valid positions from..to, as far as they exist.
Window(from, to) == {k \in 0..(Len(V) - 1) : from <= k /\ k <= to}

\* The pivot a reversal at the end of the window w must record: the extreme
\* of the window on the earliest bar that reaches it.
IsLowOf(pv, w) ==
    /\ ~IsNone(pv) /\ Val(pv).kind = "Low"
    /\ \E k \in w :
          /\ Val(pv).idx = V[k + 1].idx /\ Val(pv).value = V[k + 1].Low
          /\ \A j \in w : V[j + 1].Low >= V[k + 1].Low
          /\ \A j \in w : j < k => V[j + 1].Low > V[k + 1].Low
IsHighOf(pv, w) ==
    /\ ~IsNone(pv) /\ Val(pv).kind = "High"
    /\ \E k \in w :
          /\ Val(pv).idx = V[k + 1].idx /\ Val(pv).value = V[k + 1].High
          /\ \A j \in w : V[j + 1].High <= V[k + 1].High
          /\ \A j \in w : j < k => V[j + 1].High < V[k + 1].High

\* C3: whenever a bullish reversal fires at bar i while the trend is Bear, a
\* pivot Low is recorded with the minimum low of the valid bars
\* run_start_index..i, on the earliest bar reaching it, the trend becomes
\* Bull and run_start_index becomes i - (min_run - 1); symmetrically for a
\* bearish reversal while the trend is Bull and the pivot High.
C3_ReversalRecordsExtreme ==
    PivotsRan =>
        \A n \in 2..Len(p_trace) :
            LET e == p_trace[n]
                prev == p_trace[n - 1]
            IN /\ (e.fired = "bull" /\ prev.trend = "bear") =>
                      /\ IsLowOf(e.pivot, Window(prev.start, e.i))
                      /\ e.trend = "bull"
                      /\ e.start = e.i - (min_candles - 1)
               /\ (e.fired = "bear" /\ prev.trend = "bull") =>
                      /\ IsHighOf(e.pivot, Window(prev.start, e.i))
                      /\ e.trend = "bear"
                      /\ e.start = e.i - (min_candles - 1)

\* C3 where no position below 0 has been read so far.
C3_WithoutWrap ==
    PivotsRan =>
        \A n \in 2..Len(p_trace) :
            LET e == p_trace[n]
                prev == p_trace[n - 1]
            IN (\A j \in 2..n : \A r \in p_trace[j].reads : r >= 0) =>
               /\ (e.fired = "bull" /\ prev.trend = "bear") =>
                      /\ IsLowOf(e.pivot, Window(prev.start, e.i))
                      /\ e.trend = "bull"
                      /\ e.start = e.i - (min_candles - 1)
               /\ (e.fired = "bear" /\ prev.trend = "bull") =>
                      /\ IsHighOf(e.pivot, Window(prev.start, e.i))
                      /\ e.trend = "bear"
                      /\ e.start = e.i - (min_candles - 1)

HighRows == {k \in 1..Len(PT) : ~IsNone(PT[k].pivot_high)}
LowRows == {k \in 1..Len(PT) : ~IsNone(PT[k].pivot_low)}
Before(rows, k) == {j \in rows : j < k}
Latest(rows) == CHOOSE j \in rows : \A h \in rows : h <= j

\* C4: in the pivot table the first pivot High is labelled H and a later
\* one HH iff its value is greater than that of the pivot High before it,
\* else LH; the first pivot Low is labelled L and a later one HL iff
\* greater than the pivot Low before it, else LL; whatever the other kind
\* does, also on the same bar.
C4_LabelsFollowOwnKind ==
    PivotsDone =>
        /\ \A k \in HighRows :
              PT[k].label =
                 IF Before(HighRows, k) = {} THEN "H"
                 ELSE IF Val(PT[k].pivot_high) >
                         Val(PT[Latest(Before(HighRows, k))].pivot_high)
                      THEN "HH" ELSE "LH"
        /\ \A k \in LowRows :
              PT[k].label =
                 IF Before(LowRows, k) = {} THEN "L"
                 ELSE IF Val(PT[k].pivot_low) >
                         Val(PT[Latest(Before(LowRows, k))].pivot_low)
                      THEN "HL" ELSE "LL"

\* C5 as stated: ordered by bar, two pivot Highs have a pivot Low between
\* them (at one of their bars or in between), and two pivot Lows a pivot
\* High.
C5_AlternateByBar ==
    PivotsDone =>
        /\ \A a \in HighRows : \A b \in HighRows :
              a < b => \E k \in LowRows : a <= k /\ k <= b
        /\ \A a \in LowRows : \A b \in LowRows :
              a < b => \E k \in HighRows : a <= k /\ k <= b

\* The pivots in the order identify_pivots recorded them.
Recorded ==
    SelectSeq([n \in 1..Len(p_trace) |-> p_trace[n].pivot],
              LAMBDA pv : ~IsNone(pv))

\* C5, amended: the pivot table holds exactly the pivots the reversals
\* recorded, and in the order of recording they alternate in kind.
C5_AlternateByRecording ==
    PivotsDone =>
        \A rec \in {Recorded} :
            /\ \A n \in 1..(Len(rec) - 1) :
                  Val(rec[n]).kind # Val(rec[n + 1]).kind
            /\ \A k \in HighRows : \E n \in 1..Len(rec) :
                  rec[n] = Some([kind |-> "High", idx |-> PT[k].idx,
                                 value |-> Val(PT[k].pivot_high)])
            /\ \A k \in LowRows : \E n \in 1..Len(rec) :
                  rec[n] = Some([kind |-> "Low", idx |-> PT[k].idx,
                                 value |-> Val(PT[k].pivot_low)])
            /\ Len(rec) = Cardinality(HighRows) + Cardinality(LowRows)

\* Three pivots were recorded, and one of them lies on an earlier bar than
\* the pivot recorded before it.
C5_Witness ==
    /\ PivotsDone
    /\ \E rec \in {Recorded} :
          /\ Len(rec) >= 3
          /\ \E n \in 1..(Len(rec) - 1) :
                Val(rec[n + 1]).idx < Val(rec[n]).idx

\* C10: the loop evaluates the reversal rule at the positions
\* min_run - 1 .. len - 1 and at no other, the colour test at position i
\* reads positions of i - min_run + 1 .. i only, none of them below 0, and
\* run_start_index is never negative.
C10_WindowStaysInSeries ==
    PivotsRan =>
        /\ raised = "" =>
              {p_trace[n].i : n \in 2..Len(p_trace)} =
                 {i \in 0..(Len(V) - 1) : i >= min_candles - 1}
        /\ \A n \in 2..Len(p_trace) :
              /\ \A r \in p_trace[n].reads :
                    /\ r >= 0 /\ r <= p_trace[n].i
                    /\ r >= p_trace[n].i - min_candles + 1
              /\ p_trace[n].start >= 0

\* ------------------------------------------------------------ find_bos claims
\* find_bos has run to its end on the pivot table.
BosDone == b_trace # <<>> /\ raised = "" /\ ~IsNone(df_pivots)

\* The loop's positions, and the bar and the loop state of position i.
BosPositions == 0..(Len(b_trace) - 2)
BarAt(i) == PT[i + 1]
StepAt(i) == b_trace[i + 2]

\* At position i the active high (low) is set and the close is beyond it.
BreaksHigh(i) ==
    /\ ~IsNone(StepAt(i).act_ph_val)
    /\ BarAt(i).Close > Val(StepAt(i).act_ph_val)
BreaksLow(i) ==
    /\ ~IsNone(StepAt(i).act_pl_val)
    /\ BarAt(i).Close < Val(StepAt(i).act_pl_val)

\* The event of position i is the break of the active high (low).
EmitsBullish(i) ==
    /\ ~IsNone(StepAt(i).emitted)
    /\ LET e == Val(StepAt(i).emitted)
       IN /\ e.color = "green" /\ e.type = "BOS"
          /\ e.level = Val(StepAt(i).act_ph_val)
          /\ e.start_date = Val(StepAt(i).act_ph_idx)
          /\ e.end_date = BarAt(i).idx
EmitsBearish(i) ==
    /\ ~IsNone(StepAt(i).emitted)
    /\ LET e == Val(StepAt(i).emitted)
       IN /\ e.color = "red" /\ e.type = "BOS"
          /\ e.level = Val(StepAt(i).act_pl_val)
          /\ e.start_date = Val(StepAt(i).act_pl_idx)
          /\ e.end_date = BarAt(i).idx

\* C6: at every bar, once the active levels are updated for it, a set
\* active high (of any value, 0 included) with the close strictly above it
\* gives a Bullish event with that level, that pivot's index as start and
\* this bar as end, and clears the active high; a set active low with the
\* close strictly below it and no bullish break at the bar gives the
\* Bearish event in the same way.
C6_BreakEmitsEvent ==
    BosDone =>
        \A i \in BosPositions :
            /\ BreaksHigh(i) =>
                  EmitsBullish(i) /\ IsNone(StepAt(i).last_ph_val)
            /\ (BreaksLow(i) /\ ~BreaksHigh(i)) =>
                  EmitsBearish(i) /\ IsNone(StepAt(i).last_pl_val)

\* C7: no two events end at the same bar, and where the close is above the
\* active high and below the active low at once, the event is the Bullish
\* one, the active high is cleared and the active low stays as it was.
C7_OneEventBullishFirst ==
    BosDone =>
        /\ \A a, b \in 1..Len(bos_events) :
              a # b => bos_events[a].end_date # bos_events[b].end_date
        /\ \A i \in BosPositions :
              (BreaksHigh(i) /\ BreaksLow(i)) =>
                  /\ EmitsBullish(i)
                  /\ IsNone(StepAt(i).last_ph_val)
                  /\ StepAt(i).last_pl_val = StepAt(i).act_pl_val

\* The positions after i up to j at which a new pivot of the kind of col
\* becomes the active level.
Renewed(col, i, j) ==
    {k \in BosPositions : i < k /\ k <= j /\ ~IsNone(BarAt(k)[col])}

EmittedColour(i) ==
    IF IsNone(StepAt(i).emitted) THEN "none" ELSE Val(StepAt(i).emitted).color

\* C8: no two events of one run share direction, level and start; after
\* the event of a level no later bar gives an event of that direction
\* until a new pivot of that kind has become the active level.
C8_LevelConsumed ==
    BosDone =>
        /\ \A a, b \in 1..Len(bos_events) :
              a # b =>
                 <<bos_events[a].color, bos_events[a].level,
                   bos_events[a].start_date>>
                 # <<bos_events[b].color, bos_events[b].level,
                     bos_events[b].start_date>>
        /\ \A i, j \in BosPositions :
              (i < j /\ EmittedColour(i) = "green"
                     /\ EmittedColour(j) = "green")
                  => Renewed("pivot_high", i, j) # {}
        /\ \A i, j \in BosPositions :
              (i < j /\ EmittedColour(i) = "red" /\ EmittedColour(j) = "red")
                  => Renewed("pivot_low", i, j) # {}

\* A broken high is closed above again on a later bar, with no new pivot
\* High in between.
C8_Witness ==
    /\ BosDone
    /\ \E i, j \in BosPositions :
          /\ i < j
          /\ EmittedColour(i) = "green"
          /\ BarAt(j).Close > Val(StepAt(i).emitted).level
          /\ Renewed("pivot_high", i, j) = {}

\* C9: an event whose end bar has a next valid bar is good exactly when
\* that bar closes strictly above (Bullish) or strictly below (Bearish) the
\* level, and bad otherwise; an event that ends on the last valid bar is bad.
C9_QualityFollowsNextClose ==
    BosDone =>
        \A n \in 1..Len(bos_events) :
            LET e == bos_events[n]
                p == PosOf(PT, e.end_date)
            IN /\ e.quality \in {"good", "bad"}
               /\ IF p < Len(PT)
                  THEN e.quality = "good" <=>
                          IF e.color = "green" THEN PT[p + 1].Close > e.level
                          ELSE PT[p + 1].Close < e.level
                  ELSE e.quality = "bad"

\* An event is followed by a bar whose close only touches its level.
C9_Witness ==
    /\ BosDone
    /\ \E n \in 1..Len(bos_events) :
          LET e == bos_events[n]
              p == PosOf(PT, e.end_date)
          IN p < Len(PT) /\ PT[p + 1].Close = e.level /\ e.quality = "bad"

\* ------------------------------------------------------------ edge cases
\* C11: on a valid series of at least one and fewer than min_run bars,
\* whatever the colours, identify_pivots returns with no error and no
\* pivot, and find_bos then leaves no event.
C11_ShortSeriesYieldNothing ==
    (PivotsRan /\ Len(V) >= 1 /\ Len(V) < min_candles) =>
        /\ raised = ""
        /\ ~IsNone(df_pivots)
        /\ HighRows = {} /\ LowRows = {}
        /\ b_trace # <<>> => bos_events = <<>>

\* C12: on an empty bar series the filter leaves an empty valid series,
\* identify_pivots an empty pivot table and find_bos an empty event list,
\* none of them with an error.  (min_candles is set once identify_pivots
\* has been called, after the filter or calling it itself.)
C12_EmptyInputYieldsEmpty ==
    (df = <<>> /\ min_candles >= 1) =>
        /\ raised = ""
        /\ df_valid = Some(<<>>)
        /\ df_pivots = Some(<<>>)
        /\ bos_events = <<>>

\* The explicit pipeline on the table t:
\* filter_inside_bars(), then identify_pivots(m), then find_bos().
ExplicitValid(t) == FilterResult(t).df_valid
ExplicitPivots(t, m) == PivotResult(Val(ExplicitValid(t)), m)
ExplicitEvents(t, m) ==
    With(Val(ExplicitPivots(t, m).df_pivots),
         LAMBDA pt : With(BosRun(pt, Len(pt) - 1),
                          LAMBDA b : b[Len(b)].events))

\* A call of find_bos without a pivot table, a call of identify_pivots()
\* without a valid series, and calls that find their prerequisite.
C13_Step ==
    /\ (df # <<>> /\ IsNone(df_pivots) /\ FindBos) =>
          /\ raised' = ""
          /\ df_valid' = ExplicitValid(df)
          /\ df_pivots' = ExplicitPivots(df, DefaultMinCandles).df_pivots
          /\ bos_events' = ExplicitEvents(df, DefaultMinCandles)
    /\ (df # <<>> /\ IsNone(df_valid)
           /\ IdentifyPivots(DefaultMinCandles)) =>
          /\ raised' = ""
          /\ df_valid' = ExplicitValid(df)
          /\ df_pivots' = ExplicitPivots(df, DefaultMinCandles).df_pivots
    /\ (~IsNone(df_pivots) /\ FindBos) =>
          UNCHANGED <<df_valid, is_inside, f_trace,
                      df_pivots, p_trace, min_candles>>
    /\ (~IsNone(df_valid) /\ \E m \in 1..MaxMinCandles : IdentifyPivots(m)) =>
          UNCHANGED <<df_valid, is_inside, f_trace>>

\* C13: on a non-empty series find_bos (or identify_pivots) on an analyzer
\* whose earlier stages have not run raises nothing and leaves the pivots
\* and events of filter_inside_bars -> identify_pivots(2) -> find_bos; a
\* stage that finds its prerequisite computed leaves it as it is.
C13_LazyPrerequisites == [][C13_Step]_vars

\* find_bos has run on a pivot table that identify_pivots made with another
\* min_candles than the default, and that differs from the default's.
C13_Witness ==
    /\ BosDone
    /\ bos_events # <<>>
    /\ min_candles # DefaultMinCandles
    /\ df_pivots # ExplicitPivots(df, DefaultMinCandles).df_pivots

\* The pivot High (Low) rows at or before row p.
HighsUpTo(p) == {k \in HighRows : k <= p}
LowsUpTo(p) == {k \in LowRows : k <= p}

\* C14: at a bar that carries a pivot High the active high becomes that
\* pivot's value and index, whatever was active; so each Bullish event has
\* the level and start of the latest pivot High at or before its end bar.
\* Symmetrically for pivot Lows and Bearish events.
C14_LatestPivotIsActive ==
    BosDone =>
        /\ \A i \in BosPositions :
              /\ ~IsNone(BarAt(i).pivot_high) =>
                    /\ StepAt(i).act_ph_val = BarAt(i).pivot_high
                    /\ StepAt(i).act_ph_idx = Some(BarAt(i).idx)
              /\ ~IsNone(BarAt(i).pivot_low) =>
                    /\ StepAt(i).act_pl_val = BarAt(i).pivot_low
                    /\ StepAt(i).act_pl_idx = Some(BarAt(i).idx)
        /\ \A n \in 1..Len(bos_events) :
              LET e == bos_events[n]
                  p == PosOf(PT, e.end_date)
              IN IF e.color = "green"
                 THEN /\ HighsUpTo(p) # {}
                      /\ e.level = Val(PT[Latest(HighsUpTo(p))].pivot_high)
                      /\ e.start_date = PT[Latest(HighsUpTo(p))].idx
                 ELSE /\ LowsUpTo(p) # {}
                      /\ e.level = Val(PT[Latest(LowsUpTo(p))].pivot_low)
                      /\ e.start_date = PT[Latest(LowsUpTo(p))].idx

\* A Bullish event breaks the later of two pivot Highs, the earlier of
\* which was overwritten without an event of its own.
C14_Witness ==
    /\ BosDone
    /\ \E n \in 1..Len(bos_events) :
          LET e == bos_events[n]
              p == PosOf(PT, e.end_date)
          IN /\ e.color = "green"
             /\ \E j \in HighsUpTo(p) :
                   /\ j < Latest(HighsUpTo(p))
                   /\ \A q \in 1..Len(bos_events) :
                         bos_events[q].color = "green"
                            => bos_events[q].start_date # PT[j].idx

\* The valid bars at positions from..to are all strictly green (red).
AllGreen(from, to) ==
    \A k \in from..to : V[k + 1].Close > V[k + 1].Open
AllRed(from, to) ==
    \A k \in from..to : V[k + 1].Close < V[k + 1].Open

\* C15: a reversal fires at bar i only if the min_run bars up to i exist
\* and are all strictly green (bullish) or all strictly red (bearish), so
\* that a bar with close = open is in no run; one rule at most fires at a
\* bar, and none that matches the trend already active.
C15_OnlyStrictRunsFire ==
    PivotsRan =>
        \A n \in 2..Len(p_trace) :
            LET e == p_trace[n]
                prev == p_trace[n - 1]
                first == e.i - (min_candles - 1)
            IN /\ e.fired \in {"none", "bull", "bear"}
               /\ e.fired = "bull" =>
                     /\ first >= 0 /\ AllGreen(first, e.i)
                     /\ prev.trend # "bull" /\ e.trend = "bull"
               /\ e.fired = "bear" =>
                     /\ first >= 0 /\ AllRed(first, e.i)
                     /\ prev.trend # "bear" /\ e.trend = "bear"
               /\ e.fired = "none" => e.trend = prev.trend

\* C16: a pivot is recorded only by a reversal that closes out the opposite
\* trend (a Low by a bullish reversal of a Bear trend, a High by a bearish
\* reversal of a Bull trend), so neither the first reversal nor a run still
\* open at the end records one, and the table holds recorded pivots only; a
\* series of bars of one colour yields no pivot and no event.
C16_PivotsOnlyFromCloseOuts ==
    PivotsRan =>
        /\ \A n \in 2..Len(p_trace) :
              ~IsNone(p_trace[n].pivot) =>
                  \/ /\ p_trace[n].fired = "bull"
                     /\ p_trace[n - 1].trend = "bear"
                     /\ Val(p_trace[n].pivot).kind = "Low"
                  \/ /\ p_trace[n].fired = "bear"
                     /\ p_trace[n - 1].trend = "bull"
                     /\ Val(p_trace[n].pivot).kind = "High"
        /\ PivotsDone =>
              /\ \A k \in HighRows : \E n \in 2..Len(p_trace) :
                    p_trace[n].pivot =
                       Some([kind |-> "High", idx |-> PT[k].idx,
                             value |-> Val(PT[k].pivot_high)])
              /\ \A k \in LowRows : \E n \in 2..Len(p_trace) :
                    p_trace[n].pivot =
                       Some([kind |-> "Low", idx |-> PT[k].idx,
                             value |-> Val(PT[k].pivot_low)])
        /\ (Len(V) >= 1 /\ (AllGreen(0, Len(V) - 1) \/ AllRed(0, Len(V) - 1)))
              => /\ raised = ""
                 /\ ~IsNone(df_pivots)
                 /\ HighRows = {} /\ LowRows = {}
                 /\ b_trace # <<>> => bos_events = <<>>

\* C17: on a non-empty series the chain filter_inside_bars().
\* identify_pivots(min_candles=2).find_bos().with_candlestick_patterns()
\* and the plot(title, zoom_days) after it run without raising: the
\* analyzer provides every stage of the chain.  (TypeError is what the plot
\* call of generate_plots.py raises, which is not of this chain.)
C17_RunnerChainCompletes ==
    df # <<>> => raised \in {"", "TypeError"}

\* The loop positions of identify_pivots at which the pivot of this kind,
\* bar and value was recorded.
RecordedAt(kind, label, value) ==
    {p_trace[n].i : n \in {q \in 2..Len(p_trace) :
        p_trace[q].pivot =
           Some([kind |-> kind, idx |-> label, value |-> value])}}

EventKind(e) == IF e.color = "green" THEN "High" ELSE "Low"

\* Every valid bar has low <= open, close <= high.
WellFormed ==
    \A k \in 1..Len(V) :
        /\ V[k].Low <= V[k].Open /\ V[k].Open <= V[k].High
        /\ V[k].Low <= V[k].Close /\ V[k].Close <= V[k].High

\* C18: on well-formed bars every event ends strictly after the reversal
\* bar that recorded the pivot it breaks (the bearish reversal for a
\* Bullish event, the bullish one for a Bearish event), and so starts
\* before it ends.
C18_NoLookAhead ==
    (BosDone /\ PivotsDone /\ WellFormed) =>
        \A n \in 1..Len(bos_events) :
            LET e == bos_events[n]
                at == RecordedAt(EventKind(e), e.start_date, e.level)
            IN /\ at # {}
               /\ \A i \in at : PosOf(PT, e.end_date) - 1 > i
               /\ PosOf(PT, e.start_date) < PosOf(PT, e.end_date)

\* An event ends on the bar right after the reversal bar that recorded its
\* pivot.
C18_Witness ==
    /\ BosDone /\ PivotsDone /\ WellFormed
    /\ \E n \in 1..Len(bos_events) :
          LET e == bos_events[n]
          IN \E i \in RecordedAt(EventKind(e), e.start_date, e.level) :
                PosOf(PT, e.end_date) - 1 = i + 1

\* The loop entries of identify_pivots that close out a Bull (Bear) trend.
BullToBear ==
    {n \in 2..Len(p_trace) :
        p_trace[n].fired = "bear" /\ p_trace[n - 1].trend = "bull"}
BearToBull ==
    {n \in 2..Len(p_trace) :
        p_trace[n].fired = "bull" /\ p_trace[n - 1].trend = "bear"}

\* Of two close-outs of one kind the later one's window starts after the
\* earlier one's ends, and its pivot lies on a later bar.
WindowsApart(entries) ==
    \A a, b \in entries :
        a < b =>
           /\ p_trace[a].i < p_trace[b - 1].start
           /\ ~IsNone(p_trace[a].pivot) /\ ~IsNone(p_trace[b].pivot)
           /\ PosOf(PT, Val(p_trace[a].pivot).idx)
                 < PosOf(PT, Val(p_trace[b].pivot).idx)

\* C19: with min_candles = 2 the windows of two pivots of one kind never
\* overlap, pivots of one kind lie on strictly later bars in the order of
\* recording, and there are as many pivot Highs as Bull -> Bear
\* transitions and as many pivot Lows as Bear -> Bull transitions.
C19_WindowsOfOneKindApart ==
    (PivotsDone /\ min_candles = 2) =>
        /\ WindowsApart(BullToBear)
        /\ WindowsApart(BearToBull)
        /\ Cardinality(HighRows) = Cardinality(BullToBear)
        /\ Cardinality(LowRows) = Cardinality(BearToBull)

\* Two pivot Highs, the window of the second starting on the bar after
\* the bearish reversal that recorded the first.
C19_Witness ==
    /\ PivotsDone /\ min_candles = 2
    /\ \E a, b \in BullToBear :
          a < b /\ p_trace[b - 1].start = p_trace[a].i + 1

\* A call of find_bos on an analyzer whose last call was find_bos.
C20_Step ==
    (b_trace # <<>> /\ FindBos) =>
        UNCHANGED <<bos_events, df_pivots, df_valid, is_inside, raised>>

\* C20: find_bos called again right after find_bos leaves bos_events as the
\* first call left it, and leaves the pivot table and the valid series as
\* they were.
C20_FindBosIdempotent == [][C20_Step]_vars

\* find_bos has returned with two events or more in bos_events.
C20_Witness == BosDone /\ Len(bos_events) >= 2

\* The fields of the first analyzer.
SelfFields ==
    <<df, is_inside, df_valid, df_pivots, bos_events, raised, min_candles>>

\* A step leaves the caller's table as it was and changes one analyzer at
\* most, and a second analyzer starts from the caller's rows alone.
C21_Step ==
    /\ caller_df'.df = caller_df.df
    /\ caller_df'.is_inside = caller_df.is_inside
    /\ SelfFields' = SelfFields \/ other' = other
    /\ (IsNone(other) /\ ~IsNone(other')) =>
          Val(other') = NewAnalyzer(df, None)

\* C21: no call on an analyzer modifies the table the caller passed in, so
\* two analyzers built from one table share no state: a call on one leaves
\* the other as it was, and each starts from the caller's bars.
C21_AnalysesIsolated == [][C21_Step]_vars

\* Both analyzers have filtered and run find_bos on the same bars, with
\* different min_candles and different events.
C21_Witness ==
    /\ BosDone /\ ~IsNone(is_inside)
    /\ ~IsNone(other)
    /\ Val(other).raised = "" /\ Val(other).b_trace # <<>>
    /\ Val(other).min_candles # min_candles
    /\ Val(other).bos_events # bos_events

\* The events find_bos gives on the pivot table t.
EventsOf(t) ==
    With(BosRun(t, Len(t) - 1), LAMBDA b : b[Len(b)].events)

\* After find_bos: identify_pivots called again, filter_inside_bars called
\* again, and find_bos called again.
C22_Step ==
    /\ (b_trace # <<>> /\ \E m \in 1..MaxMinCandles : IdentifyPivots(m)) =>
          /\ df_pivots' = PivotResult(Val(df_valid), min_candles').df_pivots
          /\ bos_events' = bos_events
    /\ (b_trace # <<>> /\ FilterInsideBars) =>
          UNCHANGED <<df_pivots, bos_events>>
    /\ (b_trace # <<>> /\ FindBos) =>
          /\ df_pivots' = df_pivots
          /\ bos_events' = EventsOf(Val(df_pivots))

\* C22: identify_pivots called again after find_bos replaces the pivot table
\* by the table of the new call and leaves bos_events as they were,
\* filter_inside_bars called again leaves the pivot table and bos_events as
\* they were, and find_bos called again makes bos_events the events of the
\* current pivot table.
C22_LaterResultsNotRefreshed == [][C22_Step]_vars

=============================================================================
